---- MODULE Spec2Model ----
(***************************************************************************)
(* Signing request normalization and dispatch layer of purser.             *)
(*                                                                         *)
(* src/src/software/staticMethods.js holds two static-method modules:      *)
(*   lines   1-104  the software wallet (signer callback backend)          *)
(*   lines 106-324  the hardware wallet (payloadListener device backend)   *)
(*                                                                         *)
(* Every call of a static method is a little process: it runs             *)
(* synchronously up to its `await` (the dispatch to the backend), is       *)
(* suspended there, and runs to its end when the backend settles.  Calls   *)
(* interleave only at their await points (single-threaded scheduling).     *)
(*                                                                         *)
(* JS strings are sequences of atoms (characters for hex strings and       *)
(* addresses, words for messages); JS values are records of one shape so   *)
(* that any two of them can be compared; JS objects are functions from     *)
(* field names to values.                                                  *)
(***************************************************************************)
EXTENDS Integers, Sequences, FiniteSets, TLC

\* Number of calls of the static methods that one behaviour makes.
MaxCalls == 2
\* Largest nonce and gas price the encoding specification enumerates.
MaxNonce == 300
MaxGasPrice == 20

Calls == 1..MaxCalls

---------------------------------------------------------------------------
\* JS values

Undefined == [t |-> "undefined", n |-> 0, s |-> << >>]
Num(k) == [t |-> "number", n |-> k, s |-> << >>]
Str(chars) == [t |-> "string", n |-> 0, s |-> chars]
Bool(b) == [t |-> "boolean", n |-> IF b THEN 1 ELSE 0, s |-> << >>]
\* a bignumber (BN.js) is arbitrary precision: it holds its base-16 digits
BigNum(digits) == [t |-> "bignumber", n |-> 0, s |-> digits]
\* the ethers flavour of bignumber produced by bigNumberify
EthersBigNum(digits) == [t |-> "ethersBigNumber", n |-> 0, s |-> digits]
\* a pending promise object, seen as a value
PromiseObject == [t |-> "promise", n |-> 0, s |-> << >>]
\* a path array (the segments of a derivation path)
PathArray(segments) == [t |-> "array", n |-> 0, s |-> segments]
\* an opaque object handed back by the device
SignedTransaction == [t |-> "object", n |-> 0, s |-> <<"r", "s", "v">>]

\* Object.assign({}, a, b) computes this merge into the fresh object {}
Merge(a, b) ==
  [k \in (DOMAIN a) \cup (DOMAIN b) |-> IF k \in DOMAIN b THEN b[k] ELSE a[k]]

---------------------------------------------------------------------------
\* Strings

HexDigits == <<"0", "1", "2", "3", "4", "5", "6", "7",
               "8", "9", "a", "b", "c", "d", "e", "f">>

HexChars == {HexDigits[i] : i \in 1..16} \cup {"A", "B", "C", "D", "E", "F"}

RECURSIVE Repeat(_, _)
Repeat(chars, k) == IF k <= 0 THEN << >> ELSE chars \o Repeat(chars, k - 1)

StartsWith(str, prefix) ==
  /\ Len(str) >= Len(prefix)
  /\ SubSeq(str, 1, Len(prefix)) = prefix

\* `needle` occurs in `hay` as a contiguous run
Contains(hay, needle) ==
  \E i \in 0..(Len(hay) - Len(needle)) :
    SubSeq(hay, i + 1, i + Len(needle)) = needle

\* Number.prototype.toString(16) of an integer
RECURSIVE NatToString16(_)
NatToString16(k) ==
  IF k < 16 THEN <<HexDigits[k + 1]>>
  ELSE NatToString16(k \div 16) \o <<HexDigits[(k % 16) + 1]>>

ToString16(k) == IF k < 0 THEN <<"-">> \o NatToString16(-k) ELSE NatToString16(k)

DigitValue(ch) == CHOOSE d \in 0..15 : HexDigits[d + 1] = ch

\* the number an unprefixed string of hex digits denotes
RECURSIVE HexValue(_)
HexValue(digits) ==
  IF digits = << >> THEN 0
  ELSE 16 * HexValue(SubSeq(digits, 1, Len(digits) - 1)) + DigitValue(digits[Len(digits)])

IsHexString(chars) == \A i \in 1..Len(chars) : chars[i] \in HexChars

\* a string of hex digits without its leading zeros: two strings of hex
\* digits denote the same number exactly when these agree
RECURSIVE StripLeadingZeros(_)
StripLeadingZeros(digits) ==
  IF Len(digits) > 0 /\ digits[1] = "0" THEN StripLeadingZeros(Tail(digits))
  ELSE digits

\* String.prototype.padStart(width, "0")
PadStart(chars, width) == Repeat(<<"0">>, width - Len(chars)) \o chars

---------------------------------------------------------------------------
\* Messages and defaults imported by the static methods.  Each message text
\* is one atom: the static methods only interpolate them.

cannotSign == <<"messages.cannotSign">>
cannotSignMessage == <<"messages.cannotSignMessage">>
userSignTxCancel == <<"messages.userSignTxCancel">>
CANCEL_TX_SIGN == <<"STD_ERRORS.CANCEL_TX_SIGN">>

NoError == << >>

\* The mutable module-level payload templates
PAYLOAD_SIGNTX ==
  [type |-> Str(<<"signtx">>), requiredFirmware |-> Str(<<"1.4.0">>)]
PAYLOAD_SIGNMSG ==
  [type |-> Str(<<"signmsg">>), requiredFirmware |-> Str(<<"1.4.0">>)]
PAYLOAD_VERIFYMSG ==
  [type |-> Str(<<"verifymsg">>), requiredFirmware |-> Str(<<"1.4.0">>)]

\* bigNumber(10).toGwei(): 10 * 10^9 = 0x2540be400
DefaultHardwareGasPrice == BigNum(<<"2", "5", "4", "0", "b", "e", "4", "0", "0">>)
\* 9000000000 (9 GWEI) = 0x218711a00
DefaultSoftwareGasPrice == BigNum(<<"2", "1", "8", "7", "1", "1", "a", "0", "0">>)
\* 21000 = 0x5208
DefaultGasLimit == BigNum(<<"5", "2", "0", "8">>)
DefaultValue == BigNum(<<"1">>)

\* a parameter's default applies when the caller leaves it undefined
OrDefault(v, default) == IF v = Undefined THEN default ELSE v

---------------------------------------------------------------------------
\* Validators.  Each yields NoError or the message of the error it throws.

IsAddressBody(chars) == Len(chars) = 40 /\ IsHexString(chars)

AddressBody(chars) ==
  IF StartsWith(chars, <<"0", "x">>) THEN SubSeq(chars, 3, Len(chars)) ELSE chars

IsAddress(v) == v.t = "string" /\ IsAddressBody(AddressBody(v.s))

HardenedSegments == {"44'", "60'", "0'", "1'"}
PlainSegments == {"0", "1"}

derivationPathValidator(path) ==
  IF /\ path.t = "string"
     /\ Len(path.s) = 6
     /\ path.s[1] = "m"
     /\ \A i \in 2..4 : path.s[i] \in HardenedSegments
     /\ \A i \in 5..6 : path.s[i] \in PlainSegments
  THEN NoError ELSE <<"validators.derivationPath">>

bigNumberValidator(v) ==
  IF v.t = "bignumber" /\ ~StartsWith(v.s, <<"-">>)
  THEN NoError ELSE <<"validators.bigNumber">>

safeIntegerValidator(v) ==
  IF v.t = "number" /\ v.n >= 0 THEN NoError ELSE <<"validators.safeInteger">>

messageValidator(v) ==
  IF v.t = "string" /\ Len(v.s) > 0 THEN NoError ELSE <<"validators.message">>

\* ethers getAddress: throws on a malformed address, otherwise yields the
\* prefixed checksum address (the case of each letter is decided by a hash,
\* taken here as upper case)
getAddressError(v) == IF IsAddress(v) THEN NoError ELSE <<"invalid address">>

UpperCase(ch) ==
  CASE ch = "a" -> "A" [] ch = "b" -> "B" [] ch = "c" -> "C"
    [] ch = "d" -> "D" [] ch = "e" -> "E" [] ch = "f" -> "F"
    [] OTHER -> ch

validateAddress(v) ==
  LET body == AddressBody(v.s)
  IN  Str(<<"0", "x">> \o [i \in 1..Len(body) |-> UpperCase(body[i])])

\* first failure of a sequence of validator outcomes, NoError if none
RECURSIVE FirstError(_)
FirstError(outcomes) ==
  IF outcomes = << >> THEN NoError
  ELSE IF Head(outcomes) # NoError THEN Head(outcomes)
  ELSE FirstError(Tail(outcomes))

\* the validated field set of a software transaction object, defaults applied
TransactionDefaults(tx) ==
  [gasPrice  |-> OrDefault(tx.gasPrice, DefaultSoftwareGasPrice),
   gasLimit  |-> OrDefault(tx.gasLimit, DefaultGasLimit),
   chainId   |-> OrDefault(tx.chainId, Num(1)),
   nonce     |-> OrDefault(tx.nonce, Num(0)),
   to        |-> tx.to,
   value     |-> OrDefault(tx.value, DefaultValue),
   inputData |-> OrDefault(tx.inputData, Str(<<"0", "x", "0", "0">>))]

transactionObjectValidator(tx) ==
  LET d == TransactionDefaults(tx)
  IN  FirstError(<<bigNumberValidator(d.gasPrice),
                   bigNumberValidator(d.gasLimit),
                   safeIntegerValidator(d.chainId),
                   safeIntegerValidator(d.nonce),
                   IF IsAddress(d.to) THEN NoError ELSE <<"validators.address">>,
                   bigNumberValidator(d.value),
                   IF d.inputData.t = "string" THEN NoError
                   ELSE <<"validators.hexSequence">>>>)

---------------------------------------------------------------------------
\* Normalizers

\* pads a raw hex string (without prefix) to an even number of digits
multipleOfTwoHexValueNormalizer(chars) ==
  PadStart(chars, ((Len(chars) + 1) \div 2) * 2)

\* 0x prefix and an even number of hex digits
hexSequenceNormalizerString(chars) ==
  LET raw == IF StartsWith(chars, <<"0", "x">>)
             THEN SubSeq(chars, 3, Len(chars)) ELSE chars
  IN  <<"0", "x">> \o (IF Len(raw) % 2 = 1 THEN <<"0">> \o raw ELSE raw)

\* What hexSequenceNormalizer(v) does: on a string it returns the normalized
\* string.  It is a string function; on a value that is no string (a promise
\* object) it either throws a TypeError or returns the normalization of the
\* value's string form.
hexSequenceNormalizer(v) ==
  IF v.t = "string"
  THEN {[threw |-> FALSE, value |-> Str(hexSequenceNormalizerString(v.s)),
         message |-> << >>]}
  ELSE {[threw |-> TRUE, value |-> Undefined, message |-> <<"TypeError">>],
        [threw |-> FALSE,
         value |-> Str(hexSequenceNormalizerString(<<"[object ", v.t, "]">>)),
         message |-> << >>]}

addressNormalizer(v) == Str(<<"0", "x">> \o AddressBody(v.s))

\* bigNumberify(x.toString()): the same number as an ethers bignumber
bigNumberify(v) == EthersBigNum(v.s)

\* fromString(derivationPathNormalizer(path), true).toPathArray()
toPathArray(path) == PathArray(Tail(path.s))

\* objectToErrorString: every field of the object, in a fixed order
TransactionFields ==
  <<"gasPrice", "gasLimit", "chainId", "nonce", "to", "value", "inputData">>

ValueToString(v) ==
  CASE v.t = "number" -> <<ToString(v.n)>>
    [] v.t = "undefined" -> <<"undefined">>
    [] OTHER -> v.s

RECURSIVE FieldsToString(_, _)
FieldsToString(obj, fields) ==
  IF fields = << >> THEN << >>
  ELSE <<Head(fields), " (">> \o ValueToString(obj[Head(fields)]) \o <<"), ">>
       \o FieldsToString(obj, Tail(fields))

objectToErrorString(obj) == FieldsToString(obj, TransactionFields)

---------------------------------------------------------------------------
\* State

VARIABLES
  templates,  \* the module-level payload templates, by name
  pc,         \* per call: "idle", "awaiting" (suspended at its await), "done"
  op,         \* per call: the static method called
  req,        \* per call: the caller's argument
  callback,   \* per call: how the caller's signer callback behaves
  sent,       \* per call: what the backend was invoked with, in order
  delivered,  \* per call: what the backend gave back to the call
  result,     \* per call: how the call's promise settled
  warnings    \* per call: the messages it logged through warning()

vars == <<templates, pc, op, req, callback, sent, delivered, result, warnings>>

Pending == [kind |-> "pending", value |-> Undefined, message |-> << >>]
Resolved(v) == [kind |-> "resolved", value |-> v, message |-> << >>]
Rejected(m) == [kind |-> "rejected", value |-> Undefined, message |-> m]

\* behaviours of a signer callback
NoCallback == [kind |-> "none", value |-> Undefined, message |-> << >>]
Throws(m) == [kind |-> "throws", value |-> Undefined, message |-> m]
Returns(v) == [kind |-> "returns", value |-> v, message |-> << >>]
PromiseResolving(v) == [kind |-> "promiseResolves", value |-> v, message |-> << >>]
PromiseRejecting(m) == [kind |-> "promiseRejects", value |-> Undefined, message |-> m]

\* what a backend gave back
Nothing == [kind |-> "none", value |-> Undefined, message |-> << >>]
Threw(m) == [kind |-> "threw", value |-> Undefined, message |-> m]
Returned(v) == [kind |-> "returned", value |-> v, message |-> << >>]
SettledResolved(v) == [kind |-> "resolved", value |-> v, message |-> << >>]
SettledRejected(m) == [kind |-> "rejected", value |-> Undefined, message |-> m]

\* what awaiting the value a callback returned will give
Awaited(cb) ==
  IF cb.kind = "promiseRejects" THEN SettledRejected(cb.message)
  ELSE SettledResolved(cb.value)

InitialTemplates ==
  [PAYLOAD_SIGNTX |-> PAYLOAD_SIGNTX,
   PAYLOAD_SIGNMSG |-> PAYLOAD_SIGNMSG,
   PAYLOAD_VERIFYMSG |-> PAYLOAD_VERIFYMSG]

Init ==
  /\ templates = InitialTemplates
  /\ pc = [c \in Calls |-> "idle"]
  /\ op = [c \in Calls |-> "none"]
  /\ req = [c \in Calls |-> Undefined]
  /\ callback = [c \in Calls |-> NoCallback]
  /\ sent = [c \in Calls |-> << >>]
  /\ delivered = [c \in Calls |-> Nothing]
  /\ result = [c \in Calls |-> Pending]
  /\ warnings = [c \in Calls |-> << >>]

\* calls are numbered in the order they are made
CanStart(c) == pc[c] = "idle" /\ \A d \in Calls : d < c => pc[d] # "idle"

\* the call's entry: what it was called with
Enter(c, method, argument, cb) ==
  /\ CanStart(c)
  /\ op' = [op EXCEPT ![c] = method]
  /\ req' = [req EXCEPT ![c] = argument]
  /\ callback' = [callback EXCEPT ![c] = cb]

\* the call's promise settles
Finish(c, outcome) ==
  /\ pc' = [pc EXCEPT ![c] = "done"]
  /\ result' = [result EXCEPT ![c] = outcome]

\* the call invokes its backend with `argument`
Invoke(c, argument) == sent' = [sent EXCEPT ![c] = Append(@, argument)]

\* the call is suspended at its await
Suspend(c) ==
  /\ pc' = [pc EXCEPT ![c] = "awaiting"]
  /\ UNCHANGED result

---------------------------------------------------------------------------
\* Software wallet: signTransaction

\* the object the callback is invoked with
SoftwareSignTransactionArgument(tx) ==
  LET v == TransactionDefaults(tx)
  IN  [gasPrice |-> bigNumberify(v.gasPrice),
       gasLimit |-> bigNumberify(v.gasLimit),
       chainId  |-> v.chainId,
       nonce    |-> v.nonce,
       to       |-> addressNormalizer(v.to),
       value    |-> bigNumberify(v.value),
       data     |-> Str(hexSequenceNormalizerString(v.inputData.s))]

\* mutant: the original error is rethrown as it is
SoftwareSignTransactionCatchUnwrapped(tx, message) == Rejected(message)

\* the catch block
SoftwareSignTransactionCatch(tx, message) ==
  Rejected(cannotSign \o <<" ">> \o objectToErrorString(tx) \o <<" ">> \o message)

\* mutant: the validator is called inside the try block
SoftwareSignTransactionInvalidCaught(tx, message) ==
  SoftwareSignTransactionCatch(tx, message)

\* a failure of transactionObjectValidator leaves the function as thrown
SoftwareSignTransactionInvalid(tx, message) == Rejected(message)

\* the try block after the await gave `value`
SoftwareSignTransactionReturn(tx, value) ==
  {IF o.threw THEN SoftwareSignTransactionCatch(tx, o.message) ELSE Resolved(o.value)
     : o \in hexSequenceNormalizer(value)}

SoftwareSignTransaction(c, tx, cb) ==
  /\ Enter(c, "software.signTransaction", tx, cb)
  /\ UNCHANGED <<templates, warnings>>
  /\ LET invalid == transactionObjectValidator(tx)
     IN  IF invalid # NoError
         THEN /\ Finish(c, SoftwareSignTransactionInvalid(tx, invalid))
              /\ UNCHANGED <<sent, delivered>>
         ELSE /\ Invoke(c, SoftwareSignTransactionArgument(tx))
              /\ IF cb.kind = "throws"
                 THEN /\ delivered' = [delivered EXCEPT ![c] = Threw(cb.message)]
                      /\ Finish(c, SoftwareSignTransactionCatch(tx, cb.message))
                 ELSE /\ Suspend(c)
                      /\ UNCHANGED delivered

SoftwareSignTransactionResume(c) ==
  /\ pc[c] = "awaiting"
  /\ op[c] = "software.signTransaction"
  /\ delivered' = [delivered EXCEPT ![c] = Awaited(callback[c])]
  /\ IF Awaited(callback[c]).kind = "rejected"
     THEN Finish(c, SoftwareSignTransactionCatch(req[c], callback[c].message))
     ELSE \E outcome \in SoftwareSignTransactionReturn(req[c], callback[c].value) :
            Finish(c, outcome)
  /\ UNCHANGED <<templates, op, req, callback, sent, warnings>>

---------------------------------------------------------------------------
\* Software wallet: signMessage

SoftwareSignMessageInvalid(message, invalid) == Rejected(invalid)

SoftwareSignMessageCatch(message, caught) ==
  Rejected(cannotSignMessage \o <<": ">> \o ValueToString(message)
           \o <<" Error: ">> \o caught)

\* what `callback(message)` evaluates to: the call is not awaited, so a
\* callback that returns a promise yields the promise object itself
SoftwareSignMessageCallback(cb) ==
  CASE cb.kind = "throws" -> Threw(cb.message)
    [] cb.kind = "returns" -> Returned(cb.value)
    [] OTHER -> Returned(PromiseObject)

SoftwareSignMessage(c, message, cb) ==
  /\ Enter(c, "software.signMessage", message, cb)
  /\ UNCHANGED <<templates, warnings>>
  /\ LET invalid == messageValidator(message)
         got == SoftwareSignMessageCallback(cb)
     IN  IF invalid # NoError
         THEN /\ Finish(c, SoftwareSignMessageInvalid(message, invalid))
              /\ UNCHANGED <<sent, delivered>>
         ELSE /\ Invoke(c, message)
              /\ delivered' = [delivered EXCEPT ![c] = got]
              /\ IF got.kind = "threw"
                 THEN Finish(c, SoftwareSignMessageCatch(message, got.message))
                 ELSE \E o \in hexSequenceNormalizer(got.value) :
                        Finish(c, IF o.threw
                                  THEN SoftwareSignMessageCatch(message, o.message)
                                  ELSE Resolved(o.value))

---------------------------------------------------------------------------
\* Hardware wallet

\* mutant: Object.assign(TEMPLATE, fields) merges into the template itself
ObjectAssignInPlace(tpls, name, fields) ==
  [payload |-> Merge(tpls[name], fields),
   templates |-> [tpls EXCEPT ![name] = Merge(tpls[name], fields)]]

\* Object.assign({}, TEMPLATE, fields): the merge goes into a fresh object,
\* the template named `name` is only read.
ObjectAssign(tpls, name, fields) ==
  [payload |-> Merge(tpls[name], fields), templates |-> tpls]

\* payloadListener({ payload }): the payload goes to the device and the call
\* is suspended until the device settles
Dispatch(c, assigned) ==
  /\ Invoke(c, assigned.payload)
  /\ templates' = assigned.templates
  /\ Suspend(c)
  /\ UNCHANGED <<delivered, warnings>>

\* a validator (or validateAddress) threw before the dispatch
HardwareInvalid(c, outcome) ==
  /\ Finish(c, outcome)
  /\ UNCHANGED <<templates, sent, delivered, warnings>>

\* signTransaction -----------------------------------------------------------

\* the parameter defaults of the destructured argument
HardwareSignTransactionDefaults(r) ==
  [r EXCEPT !.gasPrice = OrDefault(@, DefaultHardwareGasPrice),
            !.nonce = OrDefault(@, Num(0))]

HardwareSignTransactionValidate(r) ==
  FirstError(<<derivationPathValidator(r.path),
               bigNumberValidator(r.gasPrice),
               safeIntegerValidator(r.chainId),
               safeIntegerValidator(r.nonce)>>)

HardwareSignTransactionInvalid(r, invalid) == Rejected(invalid)

\* gasPrice.toString(16) and nonce.toString(16)
GasPriceToString16(gasPrice) == gasPrice.s
NonceToString16(nonce) == ToString16(nonce.n)

\* mutant: the nonce and the gas price are sent as toString(16) gives them
HardwareSignTransactionFieldsUnpadded(r) ==
  [address_n |-> toPathArray(r.path),
   gas_price |-> Str(GasPriceToString16(r.gasPrice)),
   gas_limit |-> r.gasLimit,
   chain_id  |-> r.chainId,
   nonce     |-> Str(NonceToString16(r.nonce)),
   to        |-> r.to,
   value     |-> r.value,
   data      |-> r.data]

\* the fields set on top of the PAYLOAD_SIGNTX template
HardwareSignTransactionFields(r) ==
  [address_n |-> toPathArray(r.path),
   gas_price |-> Str(multipleOfTwoHexValueNormalizer(GasPriceToString16(r.gasPrice))),
   gas_limit |-> r.gasLimit,
   chain_id  |-> r.chainId,
   nonce     |-> Str(multipleOfTwoHexValueNormalizer(NonceToString16(r.nonce))),
   to        |-> r.to,
   value     |-> r.value,
   data      |-> r.data]

\* mutant: the cancellation is rethrown like any other error
HardwareSignTransactionCatchRethrow(message) ==
  [outcome |-> Rejected(message), logged |-> << >>]

\* the catch block: what the call settles to and what it logs
HardwareSignTransactionCatch(message) ==
  [outcome |-> Resolved(Undefined),
   logged  |-> IF message = CANCEL_TX_SIGN THEN <<userSignTxCancel>> ELSE << >>]

HardwareSignTransaction(c, request) ==
  /\ Enter(c, "hardware.signTransaction", request, NoCallback)
  /\ LET r == HardwareSignTransactionDefaults(request)
         invalid == HardwareSignTransactionValidate(r)
     IN  IF invalid # NoError
         THEN HardwareInvalid(c, HardwareSignTransactionInvalid(r, invalid))
         ELSE Dispatch(c, ObjectAssign(templates, "PAYLOAD_SIGNTX",
                                       HardwareSignTransactionFields(r)))

\* mutant: a rejected dispatch is sent to the device again
HardwareSignTransactionResumeRetry(c, settled) ==
  /\ pc[c] = "awaiting"
  /\ op[c] = "hardware.signTransaction"
  /\ delivered' = [delivered EXCEPT ![c] = settled]
  /\ IF settled.kind = "rejected"
     THEN /\ Invoke(c, sent[c][1])
          /\ Suspend(c)
          /\ UNCHANGED <<templates, op, req, callback, warnings>>
     ELSE /\ Finish(c, Resolved(settled.value))
          /\ UNCHANGED <<templates, op, req, callback, sent, warnings>>

HardwareSignTransactionResume(c, settled) ==
  /\ pc[c] = "awaiting"
  /\ op[c] = "hardware.signTransaction"
  /\ delivered' = [delivered EXCEPT ![c] = settled]
  /\ IF settled.kind = "rejected"
     THEN LET caught == HardwareSignTransactionCatch(settled.message)
          IN  /\ Finish(c, caught.outcome)
              /\ warnings' = [warnings EXCEPT ![c] = @ \o caught.logged]
     ELSE /\ Finish(c, Resolved(settled.value))
          /\ UNCHANGED warnings
  /\ UNCHANGED <<templates, op, req, callback, sent>>

\* signMessage ---------------------------------------------------------------

HardwareSignMessageInvalid(r, invalid) == Rejected(invalid)

HardwareSignMessageFields(r) ==
  [path |-> toPathArray(r.path), message |-> r.message]

\* the end of signMessage once the awaited payloadListener settled
HardwareSignMessageSettle(settled) ==
  IF settled.kind = "rejected" THEN Rejected(settled.message)
  ELSE Resolved(settled.value.signature)

HardwareSignMessage(c, request) ==
  /\ Enter(c, "hardware.signMessage", request, NoCallback)
  /\ LET invalid == derivationPathValidator(request.path)
     IN  IF invalid # NoError
         THEN HardwareInvalid(c, HardwareSignMessageInvalid(request, invalid))
         ELSE Dispatch(c, ObjectAssign(templates, "PAYLOAD_SIGNMSG",
                                       HardwareSignMessageFields(request)))

HardwareSignMessageResume(c, settled) ==
  /\ pc[c] = "awaiting"
  /\ op[c] = "hardware.signMessage"
  /\ delivered' = [delivered EXCEPT ![c] = settled]
  /\ Finish(c, HardwareSignMessageSettle(settled))
  /\ UNCHANGED <<templates, op, req, callback, sent, warnings>>

\* verifyMessage -------------------------------------------------------------

VerifyMessageInvalid(r, invalid) == Rejected(invalid)

\* mutant: the validated address is dispatched with its prefix
strippedPrefixAddressKept(validatedAddress) == validatedAddress

strippedPrefixAddress(validatedAddress) ==
  IF SubSeq(validatedAddress.s, 1, 2) = <<"0", "x">>
  THEN Str(SubSeq(validatedAddress.s, 3, Len(validatedAddress.s)))
  ELSE validatedAddress

VerifyMessageFields(r) ==
  [address   |-> strippedPrefixAddress(validateAddress(r.address)),
   message   |-> r.message,
   signature |-> r.signature]

\* mutant: a device rejection is caught and reported as an invalid signature
VerifyMessageSettleCaught(settled) ==
  IF settled.kind = "rejected" THEN Resolved(Bool(FALSE))
  ELSE Resolved(settled.value.success)

VerifyMessageSettle(settled) ==
  IF settled.kind = "rejected" THEN Rejected(settled.message)
  ELSE Resolved(settled.value.success)

VerifyMessage(c, request) ==
  /\ Enter(c, "hardware.verifyMessage", request, NoCallback)
  /\ LET invalid == getAddressError(request.address)
     IN  IF invalid # NoError
         THEN HardwareInvalid(c, VerifyMessageInvalid(request, invalid))
         ELSE Dispatch(c, ObjectAssign(templates, "PAYLOAD_VERIFYMSG",
                                       VerifyMessageFields(request)))

VerifyMessageResume(c, settled) ==
  /\ pc[c] = "awaiting"
  /\ op[c] = "hardware.verifyMessage"
  /\ delivered' = [delivered EXCEPT ![c] = settled]
  /\ Finish(c, VerifyMessageSettle(settled))
  /\ UNCHANGED <<templates, op, req, callback, sent, warnings>>

---------------------------------------------------------------------------
\* Inputs

Boom == <<"boom">>
DeviceFailure == <<"device", " ", "failure">>

Address == Repeat(<<"a", "B", "3">>, 13) \o <<"f">>
PrefixedAddress == <<"0", "x">> \o Address
ValidPath == Str(<<"m", "44'", "60'", "0'", "0", "0">>)
Message == Str(<<"hello", " ", "world">>)
OddSignature == Str(<<"a", "b", "c">>)
PrefixedSignature == Str(<<"0", "x", "1", "2">>)

SignerCallbacks ==
  {Throws(Boom), Returns(OddSignature),
   PromiseResolving(PrefixedSignature), PromiseRejecting(Boom)}

SoftwareTransactions ==
  {[gasPrice |-> Undefined, gasLimit |-> Undefined, chainId |-> Num(1),
    nonce |-> n, to |-> to, value |-> BigNum(<<"2", "a">>), inputData |-> Undefined]
     : n \in {Undefined, Num(3)}, to \in {Str(PrefixedAddress), Undefined}}

SoftwareMessages == {Message, Str(<< >>)}

HardwareTransaction(path, gasPrice, chainId, nonce) ==
  [path |-> path, gasPrice |-> gasPrice, gasLimit |-> Str(<<"5", "2", "0", "8">>),
   chainId |-> chainId, nonce |-> nonce, to |-> Str(PrefixedAddress),
   value |-> Str(<<"0", "1">>), data |-> Undefined]

HardwareTransactions ==
  {HardwareTransaction(path, gasPrice, chainId, nonce)
     : path \in {ValidPath, Undefined},
       gasPrice \in {Undefined, BigNum(<<"5">>), Num(5)},
       chainId \in {Num(1), Undefined},
       nonce \in {Undefined, Num(3), Num(-1)}}

HardwareMessages ==
  {[path |-> path, message |-> Message] : path \in {ValidPath, Str(<<"m">>)}}

VerifyRequests ==
  {[address |-> address, message |-> Message, signature |-> PrefixedSignature]
     : address \in {Str(PrefixedAddress), Str(Address), Str(<<"0", "x", "1">>)}}

DeviceErrors == {SettledRejected(CANCEL_TX_SIGN), SettledRejected(DeviceFailure)}

SignTransactionSettlements == {SettledResolved(SignedTransaction)} \cup DeviceErrors

SignMessageSettlements ==
  {SettledResolved([signature |-> OddSignature])} \cup DeviceErrors

VerifyMessageSettlements ==
  {SettledResolved([success |-> Bool(b)]) : b \in BOOLEAN} \cup DeviceErrors

\* the requests of the encoding specification: every nonce and gas price up
\* to the bounds, and the absent ones
EncodingTransactions ==
  {HardwareTransaction(ValidPath, gasPrice, Num(1), nonce)
     : gasPrice \in {Undefined} \cup {BigNum(ToString16(k)) : k \in 0..MaxGasPrice},
       nonce \in {Undefined} \cup {Num(k) : k \in 0..MaxNonce}}

---------------------------------------------------------------------------
\* Specifications

Next ==
  \E c \in Calls :
    \/ /\ CanStart(c)
       /\ \/ \E tx \in SoftwareTransactions, cb \in SignerCallbacks :
               SoftwareSignTransaction(c, tx, cb)
          \/ \E message \in SoftwareMessages, cb \in SignerCallbacks :
               SoftwareSignMessage(c, message, cb)
          \/ \E request \in HardwareTransactions : HardwareSignTransaction(c, request)
          \/ \E request \in HardwareMessages : HardwareSignMessage(c, request)
          \/ \E request \in VerifyRequests : VerifyMessage(c, request)
    \/ /\ pc[c] = "awaiting"
       /\ \/ SoftwareSignTransactionResume(c)
          \/ \E settled \in SignTransactionSettlements :
               HardwareSignTransactionResume(c, settled)
          \/ \E settled \in SignMessageSettlements :
               HardwareSignMessageResume(c, settled)
          \/ \E settled \in VerifyMessageSettlements :
               VerifyMessageResume(c, settled)

Spec == Init /\ [][Next]_vars

\* hardware signTransaction alone, over the whole range of numeric inputs
EncodingNext ==
  \/ /\ CanStart(1)
     /\ \E request \in EncodingTransactions : HardwareSignTransaction(1, request)
  \/ /\ pc[1] = "awaiting"
     /\ \E settled \in SignTransactionSettlements :
          HardwareSignTransactionResume(1, settled)

EncodingSpec == Init /\ [][EncodingNext]_vars

---------------------------------------------------------------------------
\* Properties

Started(c) == op[c] # "none"
Done(c) == pc[c] = "done"
Is(c, method) == op[c] = method

\* the message of the error the call's validators throw on its argument,
\* NoError when they all pass
ValidationError(c) ==
  CASE Is(c, "software.signTransaction") -> transactionObjectValidator(req[c])
    [] Is(c, "software.signMessage") -> messageValidator(req[c])
    [] Is(c, "hardware.signTransaction") ->
         HardwareSignTransactionValidate(HardwareSignTransactionDefaults(req[c]))
    [] Is(c, "hardware.signMessage") -> derivationPathValidator(req[c].path)
    [] Is(c, "hardware.verifyMessage") -> getAddressError(req[c].address)
    [] OTHER -> NoError

Valid(c) == Started(c) /\ ValidationError(c) = NoError

CallbackFailed(c) == callback[c].kind \in {"throws", "promiseRejects"}

IsEven(k) == k % 2 = 0

\* C1: hardware signTransaction whose device channel rejects with the
\* cancellation sentinel resolves to undefined and logs exactly one warning.
C1_CancelResolvesEmpty ==
  \A c \in Calls :
    (/\ Is(c, "hardware.signTransaction")
     /\ Done(c)
     /\ delivered[c] = SettledRejected(CANCEL_TX_SIGN))
    => /\ result[c] = Resolved(Undefined)
       /\ warnings[c] = <<userSignTxCancel>>

C1_Witness ==
  \E c \in Calls :
    /\ Is(c, "hardware.signTransaction")
    /\ Done(c)
    /\ Valid(c)
    /\ delivered[c] = SettledRejected(CANCEL_TX_SIGN)

\* C2: hardware signTransaction whose device channel rejects with an error
\* other than the cancellation sentinel rejects to its caller.
C2_OtherFailuresReject ==
  \A c \in Calls :
    (/\ Is(c, "hardware.signTransaction")
     /\ Done(c)
     /\ delivered[c].kind = "rejected"
     /\ delivered[c].message # CANCEL_TX_SIGN)
    => result[c].kind = "rejected"

\* C3: software signTransaction whose callback throws or rejects with message
\* M never resolves: it rejects with a message that holds the cannotSign
\* prefix, the serialized transaction object and M, and is not M itself.
C3_CallbackErrorWrapped ==
  \A c \in Calls :
    (Is(c, "software.signTransaction") /\ Valid(c) /\ CallbackFailed(c))
    => /\ result[c].kind # "resolved"
       /\ Done(c) =>
            /\ result[c].kind = "rejected"
            /\ StartsWith(result[c].message, cannotSign)
            /\ Contains(result[c].message, objectToErrorString(req[c]))
            /\ Contains(result[c].message, callback[c].message)
            /\ result[c].message # callback[c].message

C3_Witness ==
  \E c \in Calls :
    /\ Is(c, "software.signTransaction")
    /\ Valid(c)
    /\ callback[c] = PromiseRejecting(Boom)
    /\ Done(c)

\* C4: when a validator fails the backend is never invoked and the caller
\* gets the validator's own error, neither wrapped nor turned into a result.
C4_ValidationPrecedesDispatch ==
  \A c \in Calls :
    (Started(c) /\ ValidationError(c) # NoError)
    => /\ sent[c] = << >>
       /\ delivered[c] = Nothing
       /\ Done(c)
       /\ result[c] = Rejected(ValidationError(c))
       /\ ~Contains(result[c].message, cannotSign)
       /\ ~Contains(result[c].message, cannotSignMessage)

C4_Witness ==
  \E c, d \in Calls :
    /\ Is(c, "software.signTransaction") /\ ValidationError(c) # NoError
    /\ Is(d, "hardware.signTransaction") /\ ValidationError(d) # NoError
    /\ Done(c) /\ Done(d)

\* C5: verifyMessage dispatches the PAYLOAD_VERIFYMSG template with the
\* caller's message and signature and the validated address without its 0x
\* prefix, and resolves to the success field of the device's response.
C5_VerifyMessagePayload ==
  \A c \in Calls :
    (Is(c, "hardware.verifyMessage") /\ Valid(c))
    => /\ Len(sent[c]) = 1
       /\ LET payload == sent[c][1]
          IN  /\ DOMAIN payload = DOMAIN PAYLOAD_VERIFYMSG
                                    \cup {"address", "message", "signature"}
              /\ \A k \in DOMAIN PAYLOAD_VERIFYMSG : payload[k] = PAYLOAD_VERIFYMSG[k]
              /\ payload.message = req[c].message
              /\ payload.signature = req[c].signature
              /\ payload.address.t = "string"
              /\ <<"0", "x">> \o payload.address.s = validateAddress(req[c].address).s
              /\ ~StartsWith(payload.address.s, <<"0", "x">>)
       /\ (Done(c) /\ delivered[c].kind = "resolved")
            => result[c] = Resolved(delivered[c].value.success)

C5_Witness ==
  \E c \in Calls :
    /\ Is(c, "hardware.verifyMessage")
    /\ req[c].address = Str(PrefixedAddress)
    /\ Done(c)
    /\ delivered[c] = SettledResolved([success |-> Bool(TRUE)])

\* C6: software signMessage wraps a failure of the callback, thrown or
\* delivered as a rejected promise, with the cannotSignMessage prefix, the
\* message and the failure's message; a signature delivered through a
\* promise is resolved normalized.
C6_SignMessageCallbackOutcome ==
  \A c \in Calls :
    (Is(c, "software.signMessage") /\ Valid(c) /\ Done(c))
    => /\ CallbackFailed(c) =>
            /\ result[c].kind = "rejected"
            /\ StartsWith(result[c].message, cannotSignMessage)
            /\ Contains(result[c].message, req[c].s)
            /\ Contains(result[c].message, callback[c].message)
       /\ callback[c].kind = "promiseResolves" =>
            result[c] = Resolved(Str(hexSequenceNormalizerString(callback[c].value.s)))

\* C7: every call invokes its backend at most once, and exactly once when
\* its validation passes, whatever the backend gives back.
C7_NoRetry ==
  \A c \in Calls :
    /\ Len(sent[c]) <= 1
    /\ Valid(c) => Len(sent[c]) = 1

C7_Witness ==
  \E c, d \in Calls :
    /\ Is(c, "hardware.signTransaction") /\ Done(c)
    /\ delivered[c] = SettledRejected(DeviceFailure)
    /\ Is(d, "software.signTransaction") /\ Done(d)
    /\ delivered[d] = SettledRejected(Boom)

\* C8: the nonce and gas_price of the dispatched signTransaction payload are
\* unprefixed hex strings with an even number of digits that denote the
\* caller's nonce and gas price; an absent nonce is sent as zero.
C8_EvenHexEncoding ==
  \A c \in Calls :
    (Is(c, "hardware.signTransaction") /\ Valid(c))
    => /\ Len(sent[c]) = 1
       /\ LET payload == sent[c][1]
          IN  /\ payload.nonce.t = "string"
              /\ IsHexString(payload.nonce.s)
              /\ IsEven(Len(payload.nonce.s))
              /\ Len(payload.nonce.s) > 0
              /\ HexValue(payload.nonce.s) =
                   (IF req[c].nonce = Undefined THEN 0 ELSE req[c].nonce.n)
              /\ payload.gas_price.t = "string"
              /\ IsHexString(payload.gas_price.s)
              /\ IsEven(Len(payload.gas_price.s))
              /\ Len(payload.gas_price.s) > 0
              /\ req[c].gasPrice # Undefined =>
                   StripLeadingZeros(payload.gas_price.s) =
                     StripLeadingZeros(req[c].gasPrice.s)

C8_Witness ==
  \E c \in Calls :
    /\ Is(c, "hardware.signTransaction")
    /\ req[c].nonce = Num(300)
    /\ req[c].gasPrice = BigNum(<<"f">>)
    /\ sent[c] # << >>
    /\ sent[c][1].nonce = Str(<<"0", "1", "2", "c">>)
    /\ sent[c][1].gas_price = Str(<<"0", "f">>)

\* the fields a hardware call sets on top of its template
OwnFields(c) ==
  CASE Is(c, "hardware.signTransaction") ->
         HardwareSignTransactionFields(HardwareSignTransactionDefaults(req[c]))
    [] Is(c, "hardware.signMessage") -> HardwareSignMessageFields(req[c])
    [] OTHER -> VerifyMessageFields(req[c])

OwnTemplate(c) ==
  CASE Is(c, "hardware.signTransaction") -> PAYLOAD_SIGNTX
    [] Is(c, "hardware.signMessage") -> PAYLOAD_SIGNMSG
    [] OTHER -> PAYLOAD_VERIFYMSG

IsHardware(c) ==
  op[c] \in {"hardware.signTransaction", "hardware.signMessage",
             "hardware.verifyMessage"}

\* C9: the shared templates never change, and each dispatched payload is its
\* operation's template overridden by the fields of its own call only.
C9_PayloadIsolation ==
  /\ templates = InitialTemplates
  /\ \A c \in Calls :
       (IsHardware(c) /\ sent[c] # << >>)
       => LET payload == sent[c][1]
          IN  /\ DOMAIN payload = DOMAIN OwnTemplate(c) \cup DOMAIN OwnFields(c)
              /\ \A k \in DOMAIN OwnFields(c) : payload[k] = OwnFields(c)[k]
              /\ \A k \in DOMAIN OwnTemplate(c) \ DOMAIN OwnFields(c) :
                   payload[k] = OwnTemplate(c)[k]

C9_Witness ==
  \E c, d \in Calls :
    /\ c # d
    /\ Is(c, "hardware.signTransaction") /\ Is(d, "hardware.signTransaction")
    /\ req[c] # req[d]
    /\ pc[c] = "awaiting" /\ pc[d] = "awaiting"

\* C10: hardware signMessage and verifyMessage reject with the device's own
\* error whenever the device rejects, the cancellation sentinel included, and
\* resolve only when the device responded.
C10_NoSoftDecline ==
  \A c \in Calls :
    (op[c] \in {"hardware.signMessage", "hardware.verifyMessage"} /\ Done(c))
    => /\ delivered[c].kind = "rejected" => result[c] = Rejected(delivered[c].message)
       /\ result[c].kind = "resolved" => delivered[c].kind = "resolved"

C10_Witness ==
  \E c, d \in Calls :
    /\ Is(c, "hardware.verifyMessage") /\ Done(c)
    /\ delivered[c] = SettledRejected(CANCEL_TX_SIGN)
    /\ Is(d, "hardware.signMessage") /\ Done(d)
    /\ delivered[d] = SettledRejected(CANCEL_TX_SIGN)

====
